---------------------------- MODULE Spec2Model ----------------------------
(***************************************************************************)
(* The typed value web-codec of CloudBeaver: WebSQLUtils.makeWebCellValue  *)
(* (encode a driver cell value into a JSON-safe wire value) and            *)
(* WebSQLUtils.makePlainCellValue (reduce a client-submitted edit value to *)
(* a plain value).                                                         *)
(*                                                                         *)
(* Java objects are records tagged by the field k:                         *)
(*   "null"  the null reference                                            *)
(*   "num"   a Number (field n)         "bool"  a Boolean (field b)        *)
(*   "str"   a String (field s, or a run-length field for long strings)    *)
(*   "date"  a java.util.Date (field t, epoch milliseconds)                *)
(*   "array" an Object[] (field items)                                     *)
(*   "map"   a LinkedHashMap (field entries, in insertion order)           *)
(*   "dbd"   a driver value (DBDValue) with the set of interfaces it       *)
(*           implements and what its accessors and capabilities answer.    *)
(* A call's outcome is [st |-> "return", val |-> v] or                     *)
(* [st |-> "throw", exc |-> e].                                            *)
(***************************************************************************)
EXTENDS Integers, Sequences, FiniteSets, TLC

VARIABLES cell, web, calls, submitted, plain, thread, calendar

vars == <<cell, web, calls, submitted, plain, thread, calendar>>

-----------------------------------------------------------------------------
(* Bounds of the model. *)

\* longest collection that is enumerated
MaxItems == 2
\* longest declared attribute list of a composite that is enumerated
MaxAttrs == 2

-----------------------------------------------------------------------------
(* Program constants. *)

BINARY_PREVIEW_LENGTH == 255
BINARY_MAX_LENGTH == 1 * 1024 * 1024

VALUE_TYPE_ATTR == "$type"
VALUE_TYPE_COLLECTION == "collection"
VALUE_TYPE_MAP == "map"
VALUE_TYPE_DOCUMENT == "document"
VALUE_TYPE_CONTENT == "content"
VALUE_TYPE_GEOMETRY == "geometry"
ATTR_TEXT == "text"
ATTR_BINARY == "binary"

\* GisConstants.SRID_4326, the target of the reprojection
SRID_4326 == 4326

-----------------------------------------------------------------------------
(* Java values. *)

Null == [k |-> "null"]
Num(n) == [k |-> "num", n |-> n]
Str(s) == [k |-> "str", s |-> s]
Bool(b) == [k |-> "bool", b |-> b]
Date(t) == [k |-> "date", t |-> t]
Array(items) == [k |-> "array", items |-> items]

\* new LinkedHashMap<>()
EmptyMap == [k |-> "map", entries |-> <<>>]

IsMap(v) == v.k = "map"
IsString(v) == v.k = "str"

HasKey(map, key) == \E i \in 1..Len(map.entries) : map.entries[i].key = key

\* Map.get: the value of the key, null when the key is absent
Get(map, key) ==
    IF HasKey(map, key)
    THEN map.entries[CHOOSE i \in 1..Len(map.entries) : map.entries[i].key = key].val
    ELSE Null

\* LinkedHashMap.put: a new key is appended, a present key keeps its place and
\* takes the new value
Put(map, key, val) ==
    IF HasKey(map, key)
    THEN [map EXCEPT !.entries =
            [i \in 1..Len(map.entries) |->
                IF map.entries[i].key = key
                THEN [key |-> key, val |-> val]
                ELSE map.entries[i]]]
    ELSE [map EXCEPT !.entries = Append(map.entries, [key |-> key, val |-> val])]

Keys(map) == [i \in 1..Len(map.entries) |-> map.entries[i].key]

-----------------------------------------------------------------------------
(* Outcomes and exceptions. *)

Return(v) == [st |-> "return", val |-> v]
Throw(e) == [st |-> "throw", exc |-> e]

NoCause == [type |-> "none"]
Exc(type, msg, cause) == [type |-> type, msg |-> msg, cause |-> cause]

\* new DBCException(message)
DBCException(msg) == Exc("DBCException", msg, NoCause)
\* new DBCException(message, cause)
DBCExceptionCaused(msg, cause) == Exc("DBCException", msg, cause)

-----------------------------------------------------------------------------
(* Byte arrays.  A byte[] is kept run-length encoded, so that a payload     *)
(* longer than BINARY_MAX_LENGTH can be written down: runs is a sequence of *)
(* [b |-> byte, n |-> count] with n >= 1 and adjacent runs of different     *)
(* bytes.  Indexes are 0-based as in Java.                                  *)

Bytes(runs) == [k |-> "bytes", runs |-> runs]

RECURSIVE RunsLen(_)
RunsLen(runs) == IF runs = <<>> THEN 0 ELSE Head(runs).n + RunsLen(Tail(runs))

\* byte[].length
ByteLen(a) == RunsLen(a.runs)

RECURSIVE RunsAt(_, _)
RunsAt(runs, i) ==
    IF i < Head(runs).n THEN Head(runs).b ELSE RunsAt(Tail(runs), i - Head(runs).n)

\* a[i]
ByteAt(a, i) == RunsAt(a.runs, i)

\* the index one past the run that holds a[i]
RECURSIVE RunsEnd(_, _)
RunsEnd(runs, i) ==
    IF i < Head(runs).n THEN Head(runs).n
    ELSE Head(runs).n + RunsEnd(Tail(runs), i - Head(runs).n)

RECURSIVE RunsTake(_, _)
RunsTake(runs, n) ==
    IF n = 0 \/ runs = <<>> THEN <<>>
    ELSE IF Head(runs).n >= n THEN <<[b |-> Head(runs).b, n |-> n]>>
    ELSE <<Head(runs)>> \o RunsTake(Tail(runs), n - Head(runs).n)

\* append a run, merging it into the last run when the byte is the same
RunsAppend(runs, b, n) ==
    IF n = 0 THEN runs
    ELSE IF runs # <<>> /\ runs[Len(runs)].b = b
    THEN [runs EXCEPT ![Len(runs)].n = @ + n]
    ELSE Append(runs, [b |-> b, n |-> n])

\* Arrays.copyOf(original, newLength): the first newLength bytes, padded with
\* zeros when the original is shorter
CopyOf(a, newLength) ==
    LET len == ByteLen(a) IN
    IF newLength <= len THEN Bytes(RunsTake(a.runs, newLength))
    ELSE Bytes(RunsAppend(a.runs, 0, newLength - len))

-----------------------------------------------------------------------------
(* Strings made from bytes. *)

Base64Alphabet ==
    << "A", "B", "C", "D", "E", "F", "G", "H", "I", "J", "K", "L", "M",
       "N", "O", "P", "Q", "R", "S", "T", "U", "V", "W", "X", "Y", "Z",
       "a", "b", "c", "d", "e", "f", "g", "h", "i", "j", "k", "l", "m",
       "n", "o", "p", "q", "r", "s", "t", "u", "v", "w", "x", "y", "z",
       "0", "1", "2", "3", "4", "5", "6", "7", "8", "9", "+", "/" >>

B64Char(sextet) == Base64Alphabet[sextet + 1]

\* the four characters of one group of cnt (1..3) bytes; absent bytes are 0
\* and their characters are the padding "="
B64Quad(b1, b2, b3, cnt) ==
    B64Char(b1 \div 4)
    \o B64Char((b1 % 4) * 16 + b2 \div 16)
    \o (IF cnt >= 2 THEN B64Char((b2 % 16) * 4 + b3 \div 64) ELSE "=")
    \o (IF cnt >= 3 THEN B64Char(b3 % 64) ELSE "=")

\* the groups from byte p (a multiple of 3) on, as runs [q |-> quad, n |-> count]:
\* the groups that lie whole within one run of equal bytes are one run of quads
RECURSIVE B64Rope(_, _)
B64Rope(a, p) ==
    LET len == ByteLen(a) IN
    IF p >= len THEN <<>>
    ELSE LET whole == (RunsEnd(a.runs, p) - p) \div 3
             cnt == IF len - p >= 3 THEN 3 ELSE len - p
         IN  IF whole >= 1
             THEN <<[q |-> B64Quad(ByteAt(a, p), ByteAt(a, p), ByteAt(a, p), 3),
                     n |-> whole]>> \o B64Rope(a, p + 3 * whole)
             ELSE <<[q |-> B64Quad(ByteAt(a, p),
                                   IF cnt >= 2 THEN ByteAt(a, p + 1) ELSE 0,
                                   IF cnt >= 3 THEN ByteAt(a, p + 2) ELSE 0,
                                   cnt),
                     n |-> 1]>> \o B64Rope(a, p + 3)

\* Base64.encode(byte[]): standard base64 with padding, as a String whose
\* characters are kept as runs of quads
Base64Encode(a) == [k |-> "str", rope |-> B64Rope(a, 0)]

\* the number of characters of a base64 String
RECURSIVE RopeLen(_)
RopeLen(rope) == IF rope = <<>> THEN 0 ELSE 4 * Head(rope).n + RopeLen(Tail(rope))

\* GeneralUtils.convertToString(bytes, offset, length): the best-effort text of
\* bytes[offset .. offset+length-1], one character per byte; the String is named
\* by the bytes it is made from
ConvertToString(a, offset, length) ==
    [k |-> "str", ofBytes |-> CopyOf(a, offset + length).runs, from |-> offset]

-----------------------------------------------------------------------------
(* Driver values.  A DBDValue carries the interfaces its class implements,  *)
(* its isNull() and toString(), and one part per interface.  What an        *)
(* external capability does when called (return a value or throw) is part   *)
(* of the value: the codec cannot influence it.                             *)

DBDValue(ifaces, isNull, str) ==
    [k |-> "dbd", ifaces |-> ifaces, isNull |-> isNull, str |-> str]

\* DBDDocument: getDocumentId(), getDocumentContentType(), and the outcome of
\* serializeDocument(monitor, stream, charset): the bytes written, or a throw
DocumentPart(id, contentType, serialize) ==
    [docId |-> id, docContentType |-> contentType, serialize |-> serialize]

\* DBDCollection: getComponentType() and the items getItem(0..getItemCount()-1)
CollectionPart(componentType, items) ==
    [componentType |-> componentType, items |-> items]

\* DBDComposite: getAttributes() in declaration order, and the value
\* getAttributeValue answers for each of them (by position)
CompositePart(attrs, attrValues) ==
    [attrs |-> attrs, attrValues |-> attrValues]

\* DBGeometry: the object's identity, getSRID(), toString() (in str),
\* getProperties(), and the outcome of GisTransformUtils.transformToSRID
GeometryPart(ref, srid, properties, transform) ==
    [ref |-> ref, srid |-> srid, properties |-> properties, transform |-> transform]

\* DBDContent: ContentUtils.isTextContent, the outcomes of
\* ContentUtils.getContentStringValue and ContentUtils.getContentBinaryValue,
\* getContentType() and getContentLength()
ContentPart(isText, stringValue, binaryValue, contentType, contentLength) ==
    [isText |-> isText, stringValue |-> stringValue, binaryValue |-> binaryValue,
     contentType |-> contentType, contentLength |-> contentLength]

Implements(v, iface) == v.k = "dbd" /\ iface \in v.ifaces

\* a DBSTypedObject / DBSAttributeBase: only its name is ever read
TypedObject(name) == [name |-> name]

-----------------------------------------------------------------------------
(* Small conversions. *)

Digit(d) == <<"0", "1", "2", "3", "4", "5", "6", "7", "8", "9">>[d + 1]

\* the decimal text of a natural number
RECURSIVE NatToString(_)
NatToString(n) == IF n < 10 THEN Digit(n) ELSE NatToString(n \div 10) \o Digit(n % 10)

\* the decimal text of n, padded with zeros on the left to w digits
RECURSIVE Padded(_, _)
Padded(n, w) == IF w <= 1 THEN NatToString(n) ELSE
                IF n < 10 THEN Padded(0, w - 1) \o Digit(n)
                ELSE Padded(n \div 10, w - 1) \o Digit(n % 10)

\* CommonUtils.toString(Object): "" for null, else the object's toString()
CommonToString(obj) ==
    CASE obj.k = "null" -> Str("")
      [] obj.k = "num"  -> Str(NatToString(obj.n))
      [] OTHER          -> obj

\* CBConstants.ISO_DATE_FORMAT.format(date): the fixed pattern
\* yyyy-MM-dd'T'HH:mm:ss.SSS'Z', for the dates of January 1970
IsoDateFormat(t) ==
    LET ms   == t % 1000
        secs == t \div 1000
        ss   == secs % 60
        mm   == (secs \div 60) % 60
        hh   == (secs \div 3600) % 24
        dd   == (secs \div 86400) + 1
    IN  "1970-01-" \o Padded(dd, 2) \o "T" \o Padded(hh, 2) \o ":" \o Padded(mm, 2)
        \o ":" \o Padded(ss, 2) \o "." \o Padded(ms, 3) \o "Z"

\* the characters of the printable ASCII bytes used in document data
AsciiChar(b) ==
    CASE b = 123 -> "{"
      [] b = 125 -> "}"
      [] b = 97  -> "a"
      [] b = 58  -> ":"
      [] b = 49  -> "1"

\* new String(bytes, StandardCharsets.UTF_8) for ASCII bytes (a sequence)
RECURSIVE Utf8Decode(_)
Utf8Decode(bytes) ==
    IF bytes = <<>> THEN "" ELSE AsciiChar(Head(bytes)) \o Utf8Decode(Tail(bytes))

\* the exception classes caught by `catch (Exception e)`
IsException(exc) == exc.type \in {"IOException", "DBException", "DBCException",
                                  "RuntimeException"}

-----------------------------------------------------------------------------
(* The encoder. *)

\* createMapOfType(type): a new LinkedHashMap holding the discriminator
createMapOfType(type) == Put(EmptyMap, VALUE_TYPE_ATTR, Str(type))

\* serializeDocumentValue with a handler for IOException only
serializeDocumentValue_CatchesIOOnly(document) ==
    IF document.serialize.st = "throw" /\ document.serialize.exc.type = "IOException"
    THEN Throw(DBCExceptionCaused("Error serializing document", document.serialize.exc))
    ELSE IF document.serialize.st = "throw"
    THEN document.serialize
    ELSE LET documentData == Str(Utf8Decode(document.serialize.val))
             m0 == createMapOfType(VALUE_TYPE_DOCUMENT)
             m1 == Put(m0, "id", CommonToString(document.docId))
             m2 == Put(m1, "contentType", document.docContentType)
             m3 == Put(m2, "properties", EmptyMap)
             m4 == Put(m3, "data", documentData)
         IN  Return(m4)

serializeDocumentValue(document) ==
    IF document.serialize.st = "throw" /\ IsException(document.serialize.exc)
    THEN Throw(DBCExceptionCaused("Error serializing document", document.serialize.exc))
    ELSE IF document.serialize.st = "throw"
    THEN document.serialize
    ELSE LET documentData == Str(Utf8Decode(document.serialize.val))
             m0 == createMapOfType(VALUE_TYPE_DOCUMENT)
             m1 == Put(m0, "id", CommonToString(document.docId))
             m2 == Put(m1, "contentType", document.docContentType)
             m3 == Put(m2, "properties", EmptyMap)
             m4 == Put(m3, "data", documentData)
         IN  Return(m4)

\* serializeContentValue without the binary sentinel
serializeContentValue_NoSentinel(value) ==
    LET m0 == createMapOfType(VALUE_TYPE_CONTENT)
        Finish(m) == Return(Put(Put(m, "contentType", value.contentType),
                                "contentLength", value.contentLength))
    IN  IF value.isText
        THEN IF value.stringValue.st = "throw"
             THEN value.stringValue
             ELSE Finish(Put(m0, ATTR_TEXT, value.stringValue.val))
        ELSE IF value.binaryValue.st = "throw"
             THEN value.binaryValue
             ELSE LET binaryValue == value.binaryValue.val IN
                  IF binaryValue # Null
                  THEN LET m2 == Put(m0, ATTR_TEXT,
                                     ConvertToString(binaryValue, 0, ByteLen(binaryValue)))
                           inlineValue ==
                               IF ByteLen(binaryValue) > BINARY_MAX_LENGTH
                               THEN CopyOf(binaryValue, BINARY_PREVIEW_LENGTH)
                               ELSE binaryValue
                       IN  Finish(Put(m2, ATTR_BINARY, Base64Encode(inlineValue)))
                  ELSE Finish(Put(m0, ATTR_TEXT, Null))

\* serializeContentValue that reports the length of the inline copy as the
\* content's length
serializeContentValue_InlineLength(value) ==
    LET m0 == createMapOfType(VALUE_TYPE_CONTENT)
    IN  IF value.isText
        THEN IF value.stringValue.st = "throw"
             THEN value.stringValue
             ELSE Return(Put(Put(Put(m0, ATTR_TEXT, value.stringValue.val),
                                 "contentType", value.contentType),
                             "contentLength", value.contentLength))
        ELSE LET m1 == Put(m0, ATTR_BINARY, Bool(TRUE)) IN
             IF value.binaryValue.st = "throw"
             THEN value.binaryValue
             ELSE LET binaryValue == value.binaryValue.val IN
                  IF binaryValue # Null
                  THEN LET m2 == Put(m1, ATTR_TEXT,
                                     ConvertToString(binaryValue, 0, ByteLen(binaryValue)))
                           inlineValue ==
                               IF ByteLen(binaryValue) > BINARY_MAX_LENGTH
                               THEN CopyOf(binaryValue, BINARY_PREVIEW_LENGTH)
                               ELSE binaryValue
                       IN  Return(Put(Put(Put(m2, ATTR_BINARY, Base64Encode(inlineValue)),
                                          "contentType", value.contentType),
                                      "contentLength", Num(ByteLen(inlineValue))))
                  ELSE Return(Put(Put(Put(m1, ATTR_TEXT, Null),
                                      "contentType", value.contentType),
                                  "contentLength", value.contentLength))

serializeContentValue(value) ==
    LET m0 == createMapOfType(VALUE_TYPE_CONTENT)
        \* the tail common to both branches
        Finish(m) == Return(Put(Put(m, "contentType", value.contentType),
                                "contentLength", value.contentLength))
    IN  IF value.isText
        THEN IF value.stringValue.st = "throw"
             THEN value.stringValue
             ELSE Finish(Put(m0, ATTR_TEXT, value.stringValue.val))
        ELSE LET m1 == Put(m0, ATTR_BINARY, Bool(TRUE)) IN
             IF value.binaryValue.st = "throw"
             THEN value.binaryValue
             ELSE LET binaryValue == value.binaryValue.val IN
                  IF binaryValue # Null
                  THEN LET m2 == Put(m1, ATTR_TEXT,
                                     ConvertToString(binaryValue, 0, ByteLen(binaryValue)))
                           inlineValue ==
                               IF ByteLen(binaryValue) > BINARY_MAX_LENGTH
                               THEN CopyOf(binaryValue, BINARY_PREVIEW_LENGTH)
                               ELSE binaryValue
                       IN  Finish(Put(m2, ATTR_BINARY, Base64Encode(inlineValue)))
                  ELSE Finish(Put(m1, ATTR_TEXT, Null))

serializeGeometryValue(value) ==
    LET m0 == createMapOfType(VALUE_TYPE_GEOMETRY)
        m1 == Put(m0, "srid", Num(value.srid))
        m2 == Put(m1, ATTR_TEXT, Str(value.str))
        m3 == Put(m2, "properties", value.properties)
    IN  IF value.transform.st = "throw"
        THEN value.transform
        ELSE LET xValue == value.transform.val IN
             IF xValue # Null /\ xValue.ref # value.ref
             THEN Return(Put(m3, "mapText", Str(xValue.str)))
             ELSE Return(m3)

RECURSIVE makeWebCellValue(_, _)
RECURSIVE serializeComplexValue(_)

\* EncodeItems with the items stored from the end of the array
RECURSIVE EncodeItems(_, _)
EncodeItems_Reversed(collection, i) ==
    IF i >= Len(collection.items) THEN Return(<<>>)
    ELSE LET item == makeWebCellValue(collection.componentType, collection.items[i + 1]) IN
         IF item.st = "throw" THEN item
         ELSE LET rest == EncodeItems(collection, i + 1) IN
              IF rest.st = "throw" THEN rest
              ELSE Return(rest.val \o <<item.val>>)

\* EncodeItems with a loop that stores null for an item whose encoding throws
\* and goes on to the next item
EncodeItems_SkipsFailed(collection, i) ==
    IF i >= Len(collection.items) THEN Return(<<>>)
    ELSE LET item == makeWebCellValue(collection.componentType, collection.items[i + 1])
             rest == EncodeItems(collection, i + 1)
         IN  IF rest.st = "throw" THEN rest
             ELSE Return(<<IF item.st = "throw" THEN Null ELSE item.val>> \o rest.val)

\* the loop of serializeComplexValue over a collection, from index i (0-based):
\* the encoded items, or the first throw
EncodeItems(collection, i) ==
    IF i >= Len(collection.items) THEN Return(<<>>)
    ELSE LET item == makeWebCellValue(collection.componentType, collection.items[i + 1]) IN
         IF item.st = "throw" THEN item
         ELSE LET rest == EncodeItems(collection, i + 1) IN
              IF rest.st = "throw" THEN rest
              ELSE Return(<<item.val>> \o rest.val)

\* EncodeAttributes with a loop that stops one attribute early
RECURSIVE EncodeAttributes(_, _, _)
EncodeAttributes_StopsEarly(composite, i, struct) ==
    IF i >= Len(composite.attrs) THEN Return(struct)
    ELSE LET attr == composite.attrs[i]
             enc == makeWebCellValue(attr, composite.attrValues[i])
         IN  IF enc.st = "throw" THEN enc
             ELSE EncodeAttributes(composite, i + 1, Put(struct, attr.name, enc.val))

\* the loop of serializeComplexValue over a composite's attributes, from
\* position i (1-based) with the map struct filled so far
EncodeAttributes(composite, i, struct) ==
    IF i > Len(composite.attrs) THEN Return(struct)
    ELSE LET attr == composite.attrs[i]
             enc == makeWebCellValue(attr, composite.attrValues[i])
         IN  IF enc.st = "throw" THEN enc
             ELSE EncodeAttributes(composite, i + 1, Put(struct, attr.name, enc.val))

\* serializeComplexValue with an envelope for the unmodelled complex kinds too
serializeComplexValue_WrapsOther(value) ==
    IF Implements(value, "DBDCollection")
    THEN LET items == EncodeItems(value, 0) IN
         IF items.st = "throw" THEN items
         ELSE Return(Put(createMapOfType(VALUE_TYPE_COLLECTION), "value", Array(items.val)))
    ELSE IF Implements(value, "DBDComposite")
    THEN LET struct == EncodeAttributes(value, 1, EmptyMap) IN
         IF struct.st = "throw" THEN struct
         ELSE Return(Put(createMapOfType(VALUE_TYPE_MAP), "value", struct.val))
    ELSE Return(Put(createMapOfType("complex"), "value", Str(value.str)))

serializeComplexValue(value) ==
    IF Implements(value, "DBDCollection")
    THEN LET items == EncodeItems(value, 0) IN
         IF items.st = "throw" THEN items
         ELSE Return(Put(createMapOfType(VALUE_TYPE_COLLECTION), "value", Array(items.val)))
    ELSE IF Implements(value, "DBDComposite")
    THEN LET struct == EncodeAttributes(value, 1, EmptyMap) IN
         IF struct.st = "throw" THEN struct
         ELSE Return(Put(createMapOfType(VALUE_TYPE_MAP), "value", struct.val))
    ELSE Return(Str(value.str))

\* makeWebCellValue with the geometry check moved in front of the document
\* and complex value checks
makeWebCellValue_GeometryFirst(type, cellValue) ==
    IF cellValue.k = "date"
    THEN Return(Str(IsoDateFormat(cellValue.t)))
    ELSE IF cellValue.k = "dbd"
    THEN IF cellValue.isNull THEN Return(Null)
         ELSE IF Implements(cellValue, "DBGeometry") THEN serializeGeometryValue(cellValue)
         ELSE IF Implements(cellValue, "DBDDocument") THEN serializeDocumentValue(cellValue)
         ELSE IF Implements(cellValue, "DBDComplexValue") THEN serializeComplexValue(cellValue)
         ELSE IF Implements(cellValue, "DBDContent") THEN serializeContentValue(cellValue)
         ELSE Return(cellValue)
    ELSE Return(cellValue)

makeWebCellValue(type, cellValue) ==
    IF cellValue.k = "date"
    THEN Return(Str(IsoDateFormat(cellValue.t)))
    ELSE IF cellValue.k = "dbd"
    THEN IF cellValue.isNull THEN Return(Null)
         ELSE IF Implements(cellValue, "DBDDocument") THEN serializeDocumentValue(cellValue)
         ELSE IF Implements(cellValue, "DBDComplexValue") THEN serializeComplexValue(cellValue)
         ELSE IF Implements(cellValue, "DBGeometry") THEN serializeGeometryValue(cellValue)
         ELSE IF Implements(cellValue, "DBDContent") THEN serializeContentValue(cellValue)
         ELSE Return(cellValue)
    ELSE Return(cellValue)

-----------------------------------------------------------------------------
(* The calls the encoder makes to the capabilities outside the codec, in    *)
(* the order it makes them.  A call is [op |-> capability, at |-> place],   *)
(* the place being the path of item indexes (1-based) from the cell down to *)
(* the value the call is made for; a format call also keeps the date.       *)

Call(op, at) == [op |-> op, at |-> at]

RECURSIVE CapabilityCalls(_, _)

\* the calls of the collection loop from index i (0-based): those made for item
\* i, and those of the later items only when item i has been encoded
RECURSIVE ItemCalls(_, _, _)
ItemCalls(collection, i, at) ==
    IF i >= Len(collection.items) THEN <<>>
    ELSE CapabilityCalls(collection.items[i + 1], Append(at, i + 1))
         \o (IF makeWebCellValue(collection.componentType, collection.items[i + 1]).st = "throw"
             THEN <<>>
             ELSE ItemCalls(collection, i + 1, at))

\* the calls of the composite loop from the attribute at position i (1-based)
RECURSIVE AttributeCalls(_, _, _)
AttributeCalls(composite, i, at) ==
    IF i > Len(composite.attrs) THEN <<>>
    ELSE CapabilityCalls(composite.attrValues[i], Append(at, i))
         \o (IF makeWebCellValue(composite.attrs[i], composite.attrValues[i]).st = "throw"
             THEN <<>>
             ELSE AttributeCalls(composite, i + 1, at))

CapabilityCalls(cellValue, at) ==
    IF cellValue.k = "date"
    THEN <<[op |-> "ISO_DATE_FORMAT.format", at |-> at, date |-> cellValue.t]>>
    ELSE IF cellValue.k = "dbd"
    THEN IF cellValue.isNull THEN <<>>
         ELSE IF Implements(cellValue, "DBDDocument")
         THEN <<Call("serializeDocument", at)>>
         ELSE IF Implements(cellValue, "DBDComplexValue")
         THEN IF Implements(cellValue, "DBDCollection") THEN ItemCalls(cellValue, 0, at)
              ELSE IF Implements(cellValue, "DBDComposite") THEN AttributeCalls(cellValue, 1, at)
              ELSE <<>>
         ELSE IF Implements(cellValue, "DBGeometry")
         THEN <<Call("transformToSRID", at)>>
         ELSE IF Implements(cellValue, "DBDContent")
         THEN IF cellValue.isText
              THEN <<Call("getContentStringValue", at)>>
              ELSE <<Call("getContentBinaryValue", at)>>
         ELSE <<>>
    ELSE <<>>

-----------------------------------------------------------------------------
(* The decoder. *)

\* makePlainCellValue without the assignment of the text field
makePlainCellValue_KeepsEnvelope(value) ==
    IF IsMap(value)
    THEN LET typeAttr == Get(value, VALUE_TYPE_ATTR) IN
         IF IsString(typeAttr)
         THEN IF typeAttr.s = VALUE_TYPE_CONTENT
              THEN IF Get(value, ATTR_BINARY) # Null
                   THEN Throw(DBCException("Binary content edit is not supported yet"))
                   ELSE Return(value)
              ELSE Throw(DBCException("Type '" \o typeAttr.s \o "' edit is not supported yet"))
         ELSE Return(value)
    ELSE Return(value)

\* makePlainCellValue that rejects only the four other known discriminators
makePlainCellValue_KnownOnly(value) ==
    IF IsMap(value)
    THEN LET typeAttr == Get(value, VALUE_TYPE_ATTR) IN
         IF IsString(typeAttr)
         THEN IF typeAttr.s = VALUE_TYPE_CONTENT
              THEN IF Get(value, ATTR_BINARY) # Null
                   THEN Throw(DBCException("Binary content edit is not supported yet"))
                   ELSE Return(Get(value, ATTR_TEXT))
              ELSE IF typeAttr.s \in {VALUE_TYPE_COLLECTION, VALUE_TYPE_MAP,
                                      VALUE_TYPE_DOCUMENT, VALUE_TYPE_GEOMETRY}
              THEN Throw(DBCException("Type '" \o typeAttr.s \o "' edit is not supported yet"))
              ELSE Return(value)
         ELSE Return(value)
    ELSE Return(value)

makePlainCellValue(value) ==
    IF IsMap(value)
    THEN LET typeAttr == Get(value, VALUE_TYPE_ATTR) IN
         IF IsString(typeAttr)
         THEN IF typeAttr.s = VALUE_TYPE_CONTENT
              THEN IF Get(value, ATTR_BINARY) # Null
                   THEN Throw(DBCException("Binary content edit is not supported yet"))
                   ELSE Return(Get(value, ATTR_TEXT))
              ELSE Throw(DBCException("Type '" \o typeAttr.s \o "' edit is not supported yet"))
         ELSE Return(value)
    ELSE Return(value)

-----------------------------------------------------------------------------
(* The values the model feeds to the codec. *)

IOExc == Exc("IOException", "stream closed", NoCause)
DBExc == Exc("DBException", "driver error", NoCause)
RtExc == Exc("RuntimeException", "internal fault", NoCause)
\* what ContentUtils throws: a DBCException, with or without a cause
DbcCaused == Exc("DBCException", "Error reading content", IOExc)
DbcBare == Exc("DBCException", "Canceled", NoCause)

ColumnType == TypedObject("column")
ComponentType == TypedObject("component")
AttrNames == <<"a1", "a2", "a3", "a4">>

Scalars == {Null, Num(0), Num(7), Str(""), Str("a"), Bool(TRUE), Bool(FALSE)}

Dates == {Date(0), Date(86399999), Date(90061001)}

Document(id, serialize) ==
    DBDValue({"DBDDocument"}, FALSE, "doc")
        @@ DocumentPart(id, Str("application/json"), serialize)

Documents ==
    {Document(id, ser) :
        id \in {Null, Str("d1"), Num(42)},
        ser \in {Return(<<>>), Return(<<123, 97, 58, 49, 125>>),
                 Throw(IOExc), Throw(DBExc), Throw(RtExc)}}

Geometry(srid, transform) ==
    DBDValue({"DBGeometry"}, FALSE, "POINT (1 2)")
        @@ GeometryPart(1, srid, EmptyMap, transform)

\* what transformToSRID may do: return another instance, return the source
\* instance, return null, throw
Transforms ==
    {Return([ref |-> 2, str |-> "POINT (3 4)"]),
     Return([ref |-> 2, str |-> "POINT (1 2)"]),
     Return([ref |-> 1, str |-> "POINT (1 2)"]),
     Return(Null),
     Throw(RtExc)}

Geometries == {Geometry(srid, tr) : srid \in {SRID_4326, 3857, 0}, tr \in Transforms}

TextContent(stringValue, length) ==
    DBDValue({"DBDContent"}, FALSE, "clob")
        @@ ContentPart(TRUE, stringValue, Return(Null), Str("text/plain"), Num(length))

TextContents ==
    {TextContent(Return(Str("hello")), 5), TextContent(Return(Str("")), 0),
     TextContent(Return(Null), 0), TextContent(Throw(DbcCaused), 5),
     TextContent(Throw(DbcBare), 5), TextContent(Throw(RtExc), 5)}

Payloads ==
    {Bytes(<<>>),
     Bytes(<<[b |-> 72, n |-> 1], [b |-> 105, n |-> 1]>>),
     Bytes(<<[b |-> 255, n |-> 1], [b |-> 0, n |-> 3]>>),
     Bytes(<<[b |-> 1, n |-> BINARY_PREVIEW_LENGTH]>>),
     Bytes(<<[b |-> 1, n |-> 200], [b |-> 2, n |-> 56]>>),
     Bytes(<<[b |-> 1, n |-> 254], [b |-> 2, n |-> BINARY_MAX_LENGTH - 254]>>),
     Bytes(<<[b |-> 1, n |-> 254], [b |-> 2, n |-> BINARY_MAX_LENGTH - 253]>>),
     Bytes(<<[b |-> 1, n |-> 100], [b |-> 2, n |-> 300], [b |-> 3, n |-> 2 * BINARY_MAX_LENGTH]>>)}

\* a binary content; the driver reports the payload's length as its length
BinaryContent(binaryValue, length) ==
    DBDValue({"DBDContent"}, FALSE, "blob")
        @@ ContentPart(FALSE, Return(Null), binaryValue,
                       Str("application/octet-stream"), Num(length))

BinaryContents ==
    {BinaryContent(Return(p), ByteLen(p)) : p \in Payloads}
    \cup {BinaryContent(Return(Null), 0), BinaryContent(Return(Null), 4),
          BinaryContent(Throw(DbcCaused), 4), BinaryContent(Throw(DbcBare), 4),
          BinaryContent(Throw(RtExc), 4)}

\* a complex value that is neither a collection nor a composite, and a driver
\* value of no category at all
OtherComplex == DBDValue({"DBDComplexValue"}, FALSE, "ROW(1)")
BareValue == DBDValue({}, FALSE, "v")

Collection(ifaces, isNull, items) ==
    DBDValue({"DBDComplexValue", "DBDCollection"} \cup ifaces, isNull, "array")
        @@ CollectionPart(ComponentType, items)

Composite(ifaces, isNull, values) ==
    DBDValue({"DBDComplexValue", "DBDComposite"} \cup ifaces, isNull, "struct")
        @@ CompositePart([i \in 1..Len(values) |-> TypedObject(AttrNames[i])], values)

\* the values nested in the enumerated collections and composites
ItemValues ==
    {Null, Num(7), Str("a"), Date(0),
     TextContent(Return(Str("hello")), 5),
     Document(Str("d1"), Throw(IOExc)),
     Collection({}, FALSE, <<Num(0), Str("a")>>),
     Composite({}, FALSE, <<Bool(TRUE)>>),
     Geometry(0, Throw(RtExc)),
     Collection({}, FALSE, <<Num(7), Document(Str("d1"), Throw(IOExc))>>)}

Collections ==
    {Collection({}, FALSE, items) :
        items \in UNION {[1..n -> ItemValues] : n \in 0..MaxItems}}

Composites ==
    {Composite({}, FALSE, values) :
        values \in UNION {[1..n -> ItemValues] : n \in 0..MaxAttrs}}

\* a value of one class that implements the interfaces of v and of w
Also(v, w) == [v EXCEPT !.ifaces = @ \cup w.ifaces] @@ w

\* driver values whose isNull() holds
NullValues ==
    {DBDValue({}, TRUE, "null"),
     [Document(Str("d1"), Return(<<>>)) EXCEPT !.isNull = TRUE],
     Collection({}, TRUE, <<>>),
     Composite({}, TRUE, <<Num(7)>>),
     [Geometry(0, Return(Null)) EXCEPT !.isNull = TRUE],
     [TextContent(Return(Null), 0) EXCEPT !.isNull = TRUE],
     [BinaryContent(Return(Null), 0) EXCEPT !.isNull = TRUE]}

\* driver values whose class implements several of the category interfaces
MixedValues ==
    {Also(Document(Str("d1"), Return(<<>>)), Composite({}, FALSE, <<Num(7)>>)),
     Also(Collection({}, FALSE, <<Num(7), Str("a")>>), Composite({}, FALSE, <<Bool(TRUE)>>)),
     Also(OtherComplex, TextContent(Return(Str("hello")), 5)),
     Also(OtherComplex, Geometry(0, Return(Null))),
     Also(Geometry(0, Return(Null)), BinaryContent(Return(Bytes(<<>>)), 0)),
     Also(Document(Str("d1"), Throw(RtExc)), TextContent(Return(Str("hello")), 5)),
     Also(Document(Str("d1"), Return(<<>>)), Geometry(0, Throw(RtExc))),
     Also(Collection({}, FALSE, <<Num(7)>>), Geometry(0, Return(Null))),
     Also(Composite({}, FALSE, <<Str("a")>>), TextContent(Return(Str("hello")), 5)),
     Also(Composite({}, FALSE, <<Document(Str("d1"), Throw(IOExc))>>),
          BinaryContent(Return(Bytes(<<>>)), 0)),
     Also(Also(Also(Document(Str("d1"), Return(<<>>)), Composite({}, FALSE, <<Num(7)>>)),
               Geometry(0, Return(Null))),
          TextContent(Return(Str("hello")), 5))}

CellValues ==
    Scalars \cup Dates \cup Documents \cup Geometries \cup TextContents
    \cup BinaryContents \cup {OtherComplex, BareValue} \cup Collections
    \cup Composites \cup NullValues \cup MixedValues

\* a JSON object as the client submits it: a map of the given entries
Object(entries) == [k |-> "map", entries |-> entries]
Entry(key, val) == [key |-> key, val |-> val]

\* the discriminators a client may send: the five known, unknown tags, and
\* values that are no String
Tags == {Str(VALUE_TYPE_COLLECTION), Str(VALUE_TYPE_MAP), Str(VALUE_TYPE_DOCUMENT),
         Str(VALUE_TYPE_GEOMETRY), Str("bogus"), Str(""), Str("Content"),
         Num(7), Null, Bool(TRUE), Object(<<>>)}

ClientValues ==
    Scalars
    \cup {Array(<<Num(7)>>), Object(<<>>), Object(<<Entry("text", Str("x"))>>)}
    \cup {Object(<<Entry(VALUE_TYPE_ATTR, t)>>) : t \in Tags}
    \cup {Object(<<Entry("text", Str("x")), Entry(VALUE_TYPE_ATTR, t)>>) : t \in Tags}
    \cup {Object(<<Entry(VALUE_TYPE_ATTR, Str(VALUE_TYPE_CONTENT))>> \o rest) :
            rest \in {<<>>,
                      <<Entry(ATTR_TEXT, Str("x"))>>,
                      <<Entry(ATTR_TEXT, Null)>>,
                      <<Entry(ATTR_TEXT, Str("x")), Entry(ATTR_BINARY, Null)>>,
                      <<Entry(ATTR_TEXT, Str("x")), Entry(ATTR_BINARY, Bool(TRUE))>>,
                      <<Entry(ATTR_TEXT, Str("x")), Entry(ATTR_BINARY, Bool(FALSE))>>,
                      <<Entry(ATTR_BINARY, Str("SGk="))>>,
                      <<Entry(ATTR_TEXT, Num(7))>>}}

-----------------------------------------------------------------------------
(* The state machine.  The codec's own code keeps nothing between calls, so *)
(* the state of calls made one at a time is one exchange: the encode call (its argument cell and outcome web) and *)
(* the decode call (its argument submitted and outcome plain).  An exchange *)
(* is an encode, an encode whose result is sent back as an edit, or an edit *)
(* of the client's own; Release ends it.                                    *)

NoValue == [k |-> "none"]
NoOutcome == [st |-> "none"]

Idle == cell = NoValue /\ submitted = NoValue

\* the threads that call the codec at the same time
Threads == {1, 2}

\* a thread that is in no call of the codec
NoCall == [pc |-> "idle", op |-> "none", arg |-> NoValue, result |-> NoOutcome]

Init ==
    /\ cell = NoValue
    /\ web = NoOutcome
    /\ calls = <<>>
    /\ submitted = NoValue
    /\ plain = NoOutcome
    /\ thread = [t \in Threads |-> NoCall]
    /\ calendar = 0

\* the server encodes a cell of a result set
Encode(v) ==
    /\ Idle
    /\ cell' = v
    /\ web' = makeWebCellValue(ColumnType, v)
    /\ calls' = CapabilityCalls(v, <<>>)
    /\ UNCHANGED <<submitted, plain, thread, calendar>>

\* the value the encoder returned comes back as an edit and is decoded
DecodeEncoded ==
    /\ web.st = "return"
    /\ submitted = NoValue
    /\ submitted' = web.val
    /\ plain' = makePlainCellValue(web.val)
    /\ UNCHANGED <<cell, web, calls, thread, calendar>>

\* the client submits an edit value of its own
DecodeEdit(m) ==
    /\ Idle
    /\ submitted' = m
    /\ plain' = makePlainCellValue(m)
    /\ UNCHANGED <<cell, web, calls, thread, calendar>>

\* the calls have returned: nothing of the exchange is retained
Release ==
    /\ ~Idle
    /\ cell' = NoValue
    /\ web' = NoOutcome
    /\ calls' = <<>>
    /\ submitted' = NoValue
    /\ plain' = NoOutcome
    /\ UNCHANGED <<thread, calendar>>

Next ==
    \/ \E v \in CellValues : Encode(v)
    \/ DecodeEncoded
    \/ \E m \in ClientValues : DecodeEdit(m)
    \/ Release

Spec == Init /\ [][Next]_vars

-----------------------------------------------------------------------------
(* Calls made at the same time.  Each thread makes one call of the codec at *)
(* a time and the steps of the threads interleave.  The locals of a call    *)
(* (the maps and arrays it builds, lines 85, 92, 109) are its own, so an    *)
(* encode of a value that holds no date, and a decode, are one step.  An    *)
(* encode of a date goes through the one formatter all calls share (line    *)
(* 61): a java.text.Format, called without a lock, that first stores the    *)
(* date in its calendar and then reads the calendar's fields to build the   *)
(* text.  calendar is the time the shared formatter's calendar holds.       *)

\* the cells and edits the threads draw their arguments from
ConcurrentCells ==
    Dates
    \cup {Num(7), Str("a"),
          Document(Str("d1"), Return(<<>>)),
          Geometry(0, Return(Null)),
          TextContent(Return(Str("hello")), 5),
          Collection({}, FALSE, <<Num(0), Str("a")>>)}

ConcurrentEdits ==
    {Str("a"),
     Object(<<Entry(VALUE_TYPE_ATTR, Str(VALUE_TYPE_CONTENT)), Entry(ATTR_TEXT, Str("x"))>>),
     Object(<<Entry(VALUE_TYPE_ATTR, Str(VALUE_TYPE_MAP))>>)}

\* thread t calls makeWebCellValue on a date: the formatter stores the date
FormatSetTime(t, v) ==
    /\ thread[t].pc = "idle"
    /\ v.k = "date"
    /\ calendar' = v.t
    /\ thread' = [thread EXCEPT ![t] =
                    [pc |-> "formatting", op |-> "encode", arg |-> v, result |-> NoOutcome]]
    /\ UNCHANGED <<cell, web, calls, submitted, plain>>

\* the formatter builds the text from what its calendar holds, and the call
\* returns it
FormatRead(t) ==
    /\ thread[t].pc = "formatting"
    /\ thread' = [thread EXCEPT ![t].pc = "done",
                                ![t].result = Return(Str(IsoDateFormat(calendar)))]
    /\ UNCHANGED <<cell, web, calls, submitted, plain, calendar>>

\* thread t calls makeWebCellValue on a value that holds no date
EncodeValue(t, v) ==
    /\ thread[t].pc = "idle"
    /\ v.k # "date"
    /\ thread' = [thread EXCEPT ![t] =
                    [pc |-> "done", op |-> "encode", arg |-> v,
                     result |-> makeWebCellValue(ColumnType, v)]]
    /\ UNCHANGED <<cell, web, calls, submitted, plain, calendar>>

\* thread t calls makePlainCellValue
DecodeValue(t, m) ==
    /\ thread[t].pc = "idle"
    /\ thread' = [thread EXCEPT ![t] =
                    [pc |-> "done", op |-> "decode", arg |-> m,
                     result |-> makePlainCellValue(m)]]
    /\ UNCHANGED <<cell, web, calls, submitted, plain, calendar>>

\* the caller has taken the result; the formatter keeps its calendar
Finish(t) ==
    /\ thread[t].pc = "done"
    /\ thread' = [thread EXCEPT ![t] = NoCall]
    /\ UNCHANGED <<cell, web, calls, submitted, plain, calendar>>

NextConcurrent ==
    \/ \E t \in Threads, v \in ConcurrentCells : FormatSetTime(t, v)
    \/ \E t \in Threads : FormatRead(t)
    \/ \E t \in Threads, v \in ConcurrentCells : EncodeValue(t, v)
    \/ \E t \in Threads, m \in ConcurrentEdits : DecodeValue(t, m)
    \/ \E t \in Threads : Finish(t)

SpecConcurrent == Init /\ [][NextConcurrent]_vars

-----------------------------------------------------------------------------
(* What the claims speak of. *)

\* an encode call has been made in this exchange
Encoded == cell # NoValue

\* the encoded value has come back and been decoded
RoundTripped == Encoded /\ web.st = "return" /\ submitted = web.val /\ plain # NoOutcome

\* a wire value that carries the discriminator
IsEnvelope(x) == IsMap(x) /\ HasKey(x, VALUE_TYPE_ATTR)

EnvelopeOf(x, type) == IsEnvelope(x) /\ Get(x, VALUE_TYPE_ATTR) = Str(type)

IsScalar(v) == v.k \in {"null", "num", "str", "bool"}

NonNullDriverValue(v) == v.k = "dbd" /\ ~v.isNull

\* the value is of one of the non-scalar categories
IsNonScalar(v) ==
    /\ v.k = "dbd"
    /\ v.ifaces \cap {"DBDDocument", "DBDComplexValue", "DBGeometry", "DBDContent"} # {}

\* the category under which a non-null driver value is encoded
IsDocumentValue(v) == NonNullDriverValue(v) /\ "DBDDocument" \in v.ifaces
IsCollectionValue(v) ==
    NonNullDriverValue(v) /\ "DBDDocument" \notin v.ifaces /\ "DBDCollection" \in v.ifaces
IsCompositeValue(v) ==
    /\ NonNullDriverValue(v)
    /\ v.ifaces \cap {"DBDDocument", "DBDCollection"} = {}
    /\ "DBDComposite" \in v.ifaces
IsGeometryValue(v) ==
    /\ NonNullDriverValue(v)
    /\ v.ifaces \cap {"DBDDocument", "DBDComplexValue"} = {}
    /\ "DBGeometry" \in v.ifaces
IsContentValue(v) ==
    /\ NonNullDriverValue(v)
    /\ v.ifaces \cap {"DBDDocument", "DBDComplexValue", "DBGeometry"} = {}
    /\ "DBDContent" \in v.ifaces

\* the encoding of a nested value returns
Encodes(type, v) == makeWebCellValue(type, v).st = "return"

-----------------------------------------------------------------------------
(* C1 *)

\* C1, as stated: for every non-null input on which the encoder returns, the
\* result carries the discriminator "$type" if and only if the input is of a
\* non-scalar category (document, collection, composite, other complex value,
\* content, geometry), and a scalar input is returned unchanged.
C1_AsStated ==
    (Encoded /\ web.st = "return" /\ (cell.k = "dbd" => ~cell.isNull)) =>
        /\ IsEnvelope(web.val) <=> IsNonScalar(cell)
        /\ IsScalar(cell) => web.val = cell

\* C1, amended: whenever the encoder returns, the result carries the
\* discriminator "$type" if and only if the input is a non-null driver value
\* encoded as a document, a collection, a composite, a geometry or a content;
\* a non-null complex value that is neither a collection nor a composite is
\* returned as its plain string, without discriminator; every scalar input
\* (number, string, boolean, null) is returned unchanged.
C1_EnvelopeIffCategory ==
    (Encoded /\ web.st = "return") =>
        /\ IsEnvelope(web.val) <=>
              \/ IsDocumentValue(cell) \/ IsCollectionValue(cell)
              \/ IsCompositeValue(cell) \/ IsGeometryValue(cell)
              \/ IsContentValue(cell)
        /\ (/\ NonNullDriverValue(cell)
            /\ "DBDComplexValue" \in cell.ifaces
            /\ cell.ifaces \cap {"DBDDocument", "DBDCollection", "DBDComposite"} = {})
              => web.val = Str(cell.str)
        /\ IsScalar(cell) => web.val = cell

\* a complex value that is neither collection nor composite has been encoded
C1_Witness ==
    /\ Encoded
    /\ cell = OtherComplex
    /\ web = Return(Str("ROW(1)"))

-----------------------------------------------------------------------------
(* C2 *)

\* C2: for every collection of N items (N >= 0) whose items all encode, the
\* encoder returns an envelope with discriminator "collection" whose value is
\* a sequence of exactly N entries, entry i being the encoding of source item
\* i with the collection's component type.
C2_CollectionOrderAndCount ==
    (/\ Encoded
     /\ IsCollectionValue(cell)
     /\ \A i \in 1..Len(cell.items) : Encodes(cell.componentType, cell.items[i]))
    =>
        /\ web.st = "return"
        /\ EnvelopeOf(web.val, VALUE_TYPE_COLLECTION)
        /\ Get(web.val, "value").k = "array"
        /\ Len(Get(web.val, "value").items) = Len(cell.items)
        /\ \A i \in 1..Len(cell.items) :
              Get(web.val, "value").items[i]
                  = makeWebCellValue(cell.componentType, cell.items[i]).val

\* a collection of two items with different encodings has been encoded
C2_Witness ==
    /\ Encoded
    /\ IsCollectionValue(cell)
    /\ Len(cell.items) = 2
    /\ web.st = "return"
    /\ Get(web.val, "value").items[1] # Get(web.val, "value").items[2]
    /\ IsEnvelope(Get(web.val, "value").items[2])

-----------------------------------------------------------------------------
(* C3 *)

\* C3: for every composite with declared attributes a1..ak whose attribute
\* values all encode, the encoder returns an envelope with discriminator "map"
\* whose value is a mapping with exactly the keys a1..ak, in declaration order,
\* each mapped to the encoding of that attribute's value.
C3_CompositeDeclaredOrder ==
    (/\ Encoded
     /\ IsCompositeValue(cell)
     /\ \A i \in 1..Len(cell.attrs) : Encodes(cell.attrs[i], cell.attrValues[i]))
    =>
        /\ web.st = "return"
        /\ EnvelopeOf(web.val, VALUE_TYPE_MAP)
        /\ IsMap(Get(web.val, "value"))
        /\ Keys(Get(web.val, "value")) = [i \in 1..Len(cell.attrs) |-> cell.attrs[i].name]
        /\ \A i \in 1..Len(cell.attrs) :
              Get(web.val, "value").entries[i].val
                  = makeWebCellValue(cell.attrs[i], cell.attrValues[i]).val

\* a composite of two attributes with different encodings has been encoded
C3_Witness ==
    /\ Encoded
    /\ IsCompositeValue(cell)
    /\ Len(cell.attrs) = 2
    /\ web.st = "return"
    /\ Keys(Get(web.val, "value")) = <<"a1", "a2">>
    /\ Get(Get(web.val, "value"), "a1") # Get(Get(web.val, "value"), "a2")

-----------------------------------------------------------------------------
(* C4 *)

\* C4: for every content classified as text whose string value s is read
\* without failure, decoding the encoded value returns s and does not raise.
C4_TextContentRoundTrip ==
    (/\ RoundTripped
     /\ IsContentValue(cell)
     /\ cell.isText
     /\ cell.stringValue.st = "return")
    => plain = Return(cell.stringValue.val)

\* the text content "hello" has been encoded and decoded again
C4_Witness ==
    /\ RoundTripped
    /\ IsContentValue(cell)
    /\ cell.isText
    /\ cell.stringValue = Return(Str("hello"))
    /\ plain = Return(Str("hello"))

-----------------------------------------------------------------------------
(* C5 *)

UnsupportedBinaryEdit == DBCException("Binary content edit is not supported yet")

\* C5: for every content classified as binary, whether the extraction yields
\* bytes or no data, decoding its encoded envelope raises the unsupported-edit
\* error that names binary content, and returns no plain value.
C5_BinaryContentNotEditable ==
    (/\ RoundTripped
     /\ IsContentValue(cell)
     /\ ~cell.isText)
    => plain = Throw(UnsupportedBinaryEdit)

\* a binary content whose extraction yields no data has been encoded and the
\* envelope decoded
C5_Witness ==
    /\ RoundTripped
    /\ IsContentValue(cell)
    /\ ~cell.isText
    /\ cell.binaryValue = Return(Null)
    /\ plain.st = "throw"

-----------------------------------------------------------------------------
(* C6 *)

\* the first n bytes of a payload of at least n bytes
FirstBytes(payload, n) == Bytes(RunsTake(payload.runs, n))

\* C6: for every binary content with a payload of L bytes (L being the length
\* the content reports), the envelope's contentLength is L whether or not the
\* inline field is truncated; the binary field is the base64 of the first
\* BINARY_PREVIEW_LENGTH bytes when L > BINARY_MAX_LENGTH and the base64 of
\* the whole payload otherwise.
C6_BinaryLengthAndInline ==
    (/\ Encoded
     /\ IsContentValue(cell)
     /\ ~cell.isText
     /\ cell.binaryValue.st = "return"
     /\ cell.binaryValue.val # Null
     /\ cell.contentLength = Num(ByteLen(cell.binaryValue.val)))
    =>
        LET payload == cell.binaryValue.val
            L == ByteLen(payload)
            inline == IF L > BINARY_MAX_LENGTH
                      THEN FirstBytes(payload, BINARY_PREVIEW_LENGTH)
                      ELSE payload
        IN  /\ web.st = "return"
            /\ EnvelopeOf(web.val, VALUE_TYPE_CONTENT)
            /\ Get(web.val, "contentLength") = Num(L)
            /\ Get(web.val, ATTR_BINARY) = Base64Encode(inline)
            /\ RopeLen(Get(web.val, ATTR_BINARY).rope) = 4 * ((ByteLen(inline) + 2) \div 3)

\* a payload longer than BINARY_MAX_LENGTH has been encoded: the inline field
\* holds 340 characters (255 bytes) and contentLength is the full length
C6_Witness ==
    /\ Encoded
    /\ IsContentValue(cell)
    /\ ~cell.isText
    /\ cell.binaryValue.st = "return"
    /\ cell.binaryValue.val # Null
    /\ ByteLen(cell.binaryValue.val) > BINARY_MAX_LENGTH
    /\ web.st = "return"
    /\ RopeLen(Get(web.val, ATTR_BINARY).rope) = 340
    /\ Get(web.val, "contentLength").n > BINARY_MAX_LENGTH

-----------------------------------------------------------------------------
(* C7 *)

UnsupportedTypeEdit(tag) == DBCException("Type '" \o tag \o "' edit is not supported yet")

\* C7, as stated: for every submitted mapping whose discriminator is any value
\* other than "content", the decoder fails with the unsupported-edit error
\* that names the discriminator, and returns no value.
C7_AsStated ==
    (/\ submitted # NoValue
     /\ IsEnvelope(submitted)
     /\ Get(submitted, VALUE_TYPE_ATTR) # Null
     /\ Get(submitted, VALUE_TYPE_ATTR) # Str(VALUE_TYPE_CONTENT))
    =>
        /\ plain.st = "throw"
        /\ IsString(Get(submitted, VALUE_TYPE_ATTR))
        /\ plain.exc = UnsupportedTypeEdit(Get(submitted, VALUE_TYPE_ATTR).s)

\* C7, amended: for every submitted mapping whose discriminator is a string
\* other than "content", the decoder fails with the unsupported-edit error
\* that names the discriminator, and returns no value; a mapping whose
\* discriminator is not a string is returned unchanged.
C7_StringDiscriminatorRejected ==
    (submitted # NoValue /\ IsEnvelope(submitted)) =>
        LET typeAttr == Get(submitted, VALUE_TYPE_ATTR) IN
        /\ (IsString(typeAttr) /\ typeAttr.s # VALUE_TYPE_CONTENT)
              => plain = Throw(UnsupportedTypeEdit(typeAttr.s))
        /\ ~IsString(typeAttr) => plain = Return(submitted)

\* a mapping with the unknown discriminator "bogus" has been decoded
C7_Witness ==
    /\ submitted # NoValue
    /\ IsEnvelope(submitted)
    /\ Get(submitted, VALUE_TYPE_ATTR) = Str("bogus")
    /\ plain.st = "throw"

-----------------------------------------------------------------------------
(* C8 *)

-----------------------------------------------------------------------------
(* C9 *)

\* the extraction the content encoder calls for this content
Extraction(v) == IF v.isText THEN v.stringValue ELSE v.binaryValue

\* C9: when a content is encoded, every failure of reading its text or its
\* bytes reaches the caller as a DBCException that is, or carries as its
\* cause, that failure.
C9_ContentFailureWrapped ==
    (Encoded /\ IsContentValue(cell) /\ Extraction(cell).st = "throw") =>
        /\ web.st = "throw"
        /\ web.exc.type = "DBCException"
        /\ web.exc = Extraction(cell).exc \/ web.exc.cause = Extraction(cell).exc

-----------------------------------------------------------------------------
(* C10 *)

\* C10: encoding a geometry returns a geometry envelope with srid, text and
\* properties whatever the transform to SRID 4326 does (another instance, the
\* same instance, nothing, a throw), and mapText is present if and only if
\* the transform returned an instance other than the source.
C10_GeometryNeverFails ==
    (Encoded /\ IsGeometryValue(cell)) =>
        /\ web.st = "return"
        /\ EnvelopeOf(web.val, VALUE_TYPE_GEOMETRY)
        /\ HasKey(web.val, "srid") /\ HasKey(web.val, ATTR_TEXT)
        /\ HasKey(web.val, "properties")
        /\ HasKey(web.val, "mapText") <=>
              /\ cell.transform.st = "return"
              /\ cell.transform.val # Null
              /\ cell.transform.val.ref # cell.ref

-----------------------------------------------------------------------------
(* C11 *)

\* the values nested directly in a collection or a composite, in loop order,
\* and the type each of them is encoded with
Children(v) == IF IsCollectionValue(v) THEN v.items ELSE v.attrValues
ChildType(v, i) == IF IsCollectionValue(v) THEN v.componentType ELSE v.attrs[i]

IsContainer(v) == IsCollectionValue(v) \/ IsCompositeValue(v)

\* the position of the first nested value whose encoding throws, 0 if none
FirstFailing(v) ==
    LET failing == {i \in 1..Len(Children(v)) : ~Encodes(ChildType(v, i), Children(v)[i])}
    IN  IF failing = {} THEN 0 ELSE CHOOSE i \in failing : \A j \in failing : i <= j

\* the path from v down to the innermost value whose own encoding throws,
\* through the first failing child at every level
RECURSIVE FailurePath(_)
FailurePath(v) ==
    IF IsContainer(v) /\ FirstFailing(v) # 0
    THEN <<FirstFailing(v)>> \o FailurePath(Children(v)[FirstFailing(v)])
    ELSE <<>>

RECURSIVE ValueAt(_, _)
ValueAt(v, path) ==
    IF path = <<>> THEN v ELSE ValueAt(Children(v)[Head(path)], Tail(path))

\* C11: when a collection or a composite is encoded and the encoding of some
\* nested value fails, at whatever depth, the call throws exactly what the
\* encoding of the first failing item throws, which is what the innermost
\* failing value throws (nothing wrapped or added); no value is returned; no
\* capability is called for an item after the first failing one, and the
\* failing call is the last call made.
C11_AllOrNothing ==
    (Encoded /\ IsContainer(cell) /\ FirstFailing(cell) # 0) =>
        LET i == FirstFailing(cell)
            leaf == ValueAt(cell, FailurePath(cell))
        IN  /\ web.st = "throw"
            /\ web = makeWebCellValue(ChildType(cell, i), Children(cell)[i])
            /\ ~IsContainer(leaf)
            /\ web = makeWebCellValue(ColumnType, leaf)
            /\ calls # <<>>
            /\ \A n \in 1..Len(calls) : calls[n].at # <<>> /\ calls[n].at[1] <= i
            /\ calls[Len(calls)].at = FailurePath(cell)

\* a collection whose first item is a collection whose second item is a
\* document that fails, followed by a geometry that would fail as well: the
\* document's failure is thrown and the geometry is never transformed
C11_Witness ==
    /\ Encoded /\ IsCollectionValue(cell)
    /\ Len(cell.items) = 2
    /\ IsCollectionValue(cell.items[1]) /\ FirstFailing(cell.items[1]) = 2
    /\ IsGeometryValue(cell.items[2]) /\ cell.items[2].transform.st = "throw"
    /\ web = Throw(DBCExceptionCaused("Error serializing document", IOExc))
    /\ calls = <<Call("serializeDocument", <<1, 2>>)>>

-----------------------------------------------------------------------------
(* C13 *)

\* the category interfaces, in the priority the claim gives them
CategoryPriority == <<"DBDDocument", "DBDComplexValue", "DBGeometry", "DBDContent">>

\* the positions in CategoryPriority of the category checks v satisfies
CategoriesOf(v) == {p \in 1..Len(CategoryPriority) : CategoryPriority[p] \in v.ifaces}

\* the category of highest priority among those v satisfies
TopCategory(v) ==
    CategoryPriority[CHOOSE p \in CategoriesOf(v) : \A q \in CategoriesOf(v) : p <= q]

\* the encoder of a category applied to v on its own
CategoryEncoder(category, v) ==
    CASE category = "DBDDocument" -> serializeDocumentValue(v)
      [] category = "DBDComplexValue" -> serializeComplexValue(v)
      [] category = "DBGeometry" -> serializeGeometryValue(v)
      [] category = "DBDContent" -> serializeContentValue(v)

\* the discriminators a category's envelopes carry
CategoryTypes(category) ==
    CASE category = "DBDDocument" -> {VALUE_TYPE_DOCUMENT}
      [] category = "DBDComplexValue" -> {VALUE_TYPE_COLLECTION, VALUE_TYPE_MAP}
      [] category = "DBGeometry" -> {VALUE_TYPE_GEOMETRY}
      [] category = "DBDContent" -> {VALUE_TYPE_CONTENT}

\* the capabilities a category's encoder calls for the value itself
CategoryCapabilities(category) ==
    CASE category = "DBDDocument" -> {"serializeDocument"}
      [] category = "DBDComplexValue" -> {}
      [] category = "DBGeometry" -> {"transformToSRID"}
      [] category = "DBDContent" -> {"getContentStringValue", "getContentBinaryValue"}

\* C13: when a non-null driver value that satisfies two or more of the
\* category checks is encoded, the outcome is the one the encoder of its
\* highest-priority category (document, complex value, geometry, content)
\* gives for it; an envelope that comes back carries a discriminator of that
\* category; and the only capability called for the value itself is that
\* category's, at most once.
C13_DispatchPriority ==
    (Encoded /\ NonNullDriverValue(cell) /\ Cardinality(CategoriesOf(cell)) >= 2) =>
        LET top == TopCategory(cell)
            own == {n \in 1..Len(calls) : calls[n].at = <<>>}
        IN  /\ web = CategoryEncoder(top, cell)
            /\ (web.st = "return" /\ IsEnvelope(web.val)) =>
                   \E type \in CategoryTypes(top) : EnvelopeOf(web.val, type)
            /\ \A n \in own : calls[n].op \in CategoryCapabilities(top)
            /\ Cardinality(own) <= 1

\* a value that is a geometry and a binary content has come back as a
\* geometry envelope, and its bytes have not been read
C13_Witness ==
    /\ Encoded /\ NonNullDriverValue(cell)
    /\ {"DBGeometry", "DBDContent"} \subseteq cell.ifaces
    /\ TopCategory(cell) = "DBGeometry"
    /\ web.st = "return" /\ EnvelopeOf(web.val, VALUE_TYPE_GEOMETRY)
    /\ ~HasKey(web.val, ATTR_BINARY)
    /\ calls = <<Call("transformToSRID", <<>>)>>

-----------------------------------------------------------------------------
(* C12 *)

\* what a call returns when it runs alone
Alone(op, arg) ==
    IF op = "encode" THEN makeWebCellValue(ColumnType, arg) ELSE makePlainCellValue(arg)

=============================================================================
